---- MODULE Spec2Model ----
(***************************************************************************)
(* Model of package workgroup (sadlil/workgroup): a Group launches         *)
(* goroutines, bounds how many run at once with a buffered channel used    *)
(* as a semaphore, aggregates their errors according to a FailureMode and  *)
(* ties them to one cancellable context.                                   *)
(*                                                                         *)
(* The statements are those of Group in the package's Go source; the       *)
(* variant that calls retry.Do(fn, ...) with Attempts(1) runs fn at most   *)
(* once and may return ctx.Err() once the context is done, which RunFn     *)
(* allows.                                                                 *)
(*                                                                         *)
(* One caller thread makes nTasks calls of Go, one after another, and      *)
(* then calls Wait.  Cancel may be called by any thread at any time.  The  *)
(* goroutine started by Go is modelled statement by statement, because     *)
(* its statements interleave with those of the other goroutines.           *)
(***************************************************************************)
EXTENDS Integers, Sequences, FiniteSets

\* ---------------------------------------------------------------- bounds
MaxTasks == 2
MaxLimit == 2

Tasks == 1..MaxTasks

\* g.sem == nil: no WithLimit option was given
NoLimit == -1

\* ---------------------------------------------------------------- errors
\* An error value.  kind "nil" is the nil error, "new" a value made by
\* errors.New, "wrap" a value made by fmt.Errorf("...%w", e), "join" a value
\* made by errors.Join.  tag tells apart the values that distinct calls of
\* fmt.Errorf make; errs is what Unwrap returns.
NilErr == [kind |-> "nil", name |-> "", tag |-> 0, errs |-> <<>>]

ErrorsNew(name) == [kind |-> "new", name |-> name, tag |-> 0, errs |-> <<>>]

Errorf(tag, e) == [kind |-> "wrap", name |-> "", tag |-> tag, errs |-> <<e>>]

errInternal == ErrorsNew("internal")

errInvalid == ErrorsNew("invalid")

Canceled == ErrorsNew("context canceled")

DeadlineExceeded == ErrorsNew("context deadline exceeded")

\* the sentinel values a caller can test the result of Wait against
Sentinels == {errInternal, errInvalid, Canceled, DeadlineExceeded}

\* errors.Join(a, b): nil arguments are dropped, nil when none is left,
\* otherwise a new value that unwraps to the remaining arguments, in order.
DropNil(s) == SelectSeq(s, LAMBDA e : e # NilErr)

\* a join that keeps only what was there
JoinKeepsOld(a, b) == a

Join(a, b) ==
    IF DropNil(<<a, b>>) = <<>>
    THEN NilErr
    ELSE [kind |-> "join", name |-> "", tag |-> 0, errs |-> DropNil(<<a, b>>)]

\* errors.Is(err, target): err is target, or something err unwraps to is.
RECURSIVE Is(_, _)
Is(err, target) ==
    \/ err = target
    \/ \E i \in DOMAIN err.errs : Is(err.errs[i], target)

\* the values a joined error was built from, depth first
RECURSIVE Leaves(_)
RECURSIVE LeavesOfSeq(_)
Leaves(err) ==
    IF err = NilErr THEN <<>>
    ELSE IF err.kind = "join" THEN LeavesOfSeq(err.errs)
    ELSE <<err>>

LeavesOfSeq(s) ==
    IF s = <<>> THEN <<>> ELSE Leaves(Head(s)) \o LeavesOfSeq(Tail(s))

\* ----------------------------------------------------------------- state
VARIABLES
    failureMode,  \* g.failureMode
    semCap,       \* cap(g.sem), NoLimit when g.sem is nil
    cancel,       \* g.cancel != nil (the Group was built by New)
    nTasks,       \* how many times the caller calls Go before Wait
    semLen,       \* len(g.sem)
    wg,           \* the counter of g.wg
    err,          \* g.err
    errOnce,      \* g.errOnce has fired
    errLock,      \* the task holding g.errLock, 0 when it is free
    firstLock,    \* the first task that took g.errLock, 0 when none has
    ctxErr,       \* Err() of the context New returned
    cancelledBy,  \* which call cancelled that context
    goPc,         \* where the caller is in Go(ctx, fn) for each task
    taskPc,       \* where each task's goroutine is
    taskErr,      \* the goroutine's local err, the value fn returned
    observed,     \* the context was done when fn returned
    joinOld,      \* the g.err a goroutine read as the argument of errors.Join
    waitPc,       \* where the caller is in Wait
    waitResult    \* the value Wait returned

config == <<failureMode, semCap, cancel, nTasks>>

vars == <<failureMode, semCap, cancel, nTasks, semLen, wg, err, errOnce,
          errLock, firstLock, ctxErr, cancelledBy, goPc, taskPc, taskErr, observed,
          joinOld, waitPc, waitResult>>

\* ---------------------------------------------------------------- set up
Begin ==
    /\ semLen = 0
    /\ wg = 0
    /\ err = NilErr
    /\ errOnce = FALSE
    /\ errLock = 0
    /\ firstLock = 0
    /\ ctxErr = NilErr
    /\ cancelledBy = "none"
    /\ goPc = [t \in Tasks |-> "idle"]
    /\ taskPc = [t \in Tasks |-> "none"]
    /\ taskErr = [t \in Tasks |-> NilErr]
    /\ observed = [t \in Tasks |-> FALSE]
    /\ joinOld = [t \in Tasks |-> NilErr]
    /\ waitPc = "idle"
    /\ waitResult = NilErr
    /\ nTasks \in 0..MaxTasks

\* WithLimit(n): g.sem = make(chan struct{}, n)
WithLimit(n) == semCap = n

\* New(ctx, mode, opts...)
New ==
    /\ cancel = TRUE
    /\ failureMode \in {"Collect", "FailFast"}
    /\ \/ semCap = NoLimit
       \/ \E n \in 0..MaxLimit : WithLimit(n)

\* var g Group
ZeroValue ==
    /\ cancel = FALSE
    /\ failureMode = "Collect"
    /\ semCap = NoLimit

Init == Begin /\ (New \/ ZeroValue)

\* ----------------------------------------------------------- cancellation
\* a cancel function whose every call sets Err() anew
CancelCtxOverwrites(cause, by) == ctxErr' = cause /\ cancelledBy' = by

\* the cancel function of context.WithCancel: the first call sets Err(),
\* later calls do nothing
CancelCtx(cause, by) ==
    IF ctxErr = NilErr
    THEN ctxErr' = cause /\ cancelledBy' = by
    ELSE UNCHANGED <<ctxErr, cancelledBy>>

\* a g.Cancel() that calls g.cancel without looking whether it is nil
GroupCancelUnguarded(by) == CancelCtx(Canceled, by)

\* g.Cancel(), called by by
GroupCancel(by) ==
    IF cancel
    THEN CancelCtx(Canceled, by)
    ELSE UNCHANGED <<ctxErr, cancelledBy>>

\* a Cancel that goes through the fail-fast latch
CancelFiresLatch ==
    /\ GroupCancel("Cancel")
    /\ errOnce' = TRUE
    /\ UNCHANGED <<config, semLen, wg, err, errLock, firstLock, goPc, taskPc,
                   taskErr, observed, joinOld, waitPc, waitResult>>

\* Cancel called by the user of the group
Cancel ==
    /\ GroupCancel("Cancel")
    /\ UNCHANGED <<config, semLen, wg, err, errOnce, errLock, firstLock, goPc, taskPc,
                   taskErr, observed, joinOld, waitPc, waitResult>>

\* the context given to New is cancelled or its deadline passes: the context
\* derived from it by context.WithCancel is done with the same error
ParentDone ==
    /\ cancel
    /\ ctxErr = NilErr
    /\ \E cause \in {Canceled, DeadlineExceeded} : CancelCtx(cause, "Parent")
    /\ UNCHANGED <<config, semLen, wg, err, errOnce, errLock, firstLock, goPc, taskPc,
                   taskErr, observed, joinOld, waitPc, waitResult>>

\* -------------------------------------------------------------------- Go
\* the caller's next call of Go: they are made one after another
NextTask(t) ==
    /\ t <= nTasks
    /\ goPc[t] = "idle"
    /\ \A u \in Tasks : u < t => goPc[u] = "returned"

\* a Go that counts the task before add() waits for capacity
GoCountsAtEntry(t) ==
    /\ waitPc = "idle"
    /\ NextTask(t)
    /\ wg' = wg + 1
    /\ goPc' = [goPc EXCEPT ![t] = "add"]
    /\ UNCHANGED <<config, semLen, err, errOnce, errLock, firstLock, ctxErr,
                   cancelledBy, taskPc, taskErr, observed, joinOld, waitPc,
                   waitResult>>

\* Go is called and enters g.add()
Go(t) ==
    /\ waitPc = "idle"
    /\ NextTask(t)
    /\ goPc' = [goPc EXCEPT ![t] = "add"]
    /\ UNCHANGED <<config, semLen, wg, err, errOnce, errLock, firstLock, ctxErr,
                   cancelledBy, taskPc, taskErr, observed, joinOld, waitPc,
                   waitResult>>

\* a send that is let through when the channel is already full
SemHasRoomOffByOne == semLen <= semCap

\* an add() that admits nothing once the context is done
add_semRefusesCancelled(t) ==
    /\ goPc[t] = "add"
    /\ ctxErr = NilErr
    /\ IF semCap # NoLimit
       THEN semLen < semCap /\ semLen' = semLen + 1
       ELSE UNCHANGED semLen
    /\ goPc' = [goPc EXCEPT ![t] = "wgAdd"]
    /\ UNCHANGED <<config, wg, err, errOnce, errLock, firstLock, ctxErr, cancelledBy,
                   taskPc, taskErr, observed, joinOld, waitPc, waitResult>>

\* g.sem <- struct{}{} can proceed
SemHasRoom == semLen < semCap

\* an add() whose send goes through although the channel is full
add_semOverfills(t) ==
    /\ goPc[t] = "add"
    /\ IF semCap # NoLimit
       THEN semLen <= semCap /\ semLen' = semLen + 1
       ELSE UNCHANGED semLen
    /\ goPc' = [goPc EXCEPT ![t] = "wgAdd"]
    /\ UNCHANGED <<config, wg, err, errOnce, errLock, firstLock, ctxErr, cancelledBy,
                   taskPc, taskErr, observed, joinOld, waitPc, waitResult>>

\* add(), first statement: if g.sem != nil { g.sem <- struct{}{} }
add_sem(t) ==
    /\ goPc[t] = "add"
    /\ IF semCap # NoLimit
       THEN SemHasRoom /\ semLen' = semLen + 1
       ELSE UNCHANGED semLen
    /\ goPc' = [goPc EXCEPT ![t] = "wgAdd"]
    /\ UNCHANGED <<config, wg, err, errOnce, errLock, firstLock, ctxErr, cancelledBy,
                   taskPc, taskErr, observed, joinOld, waitPc, waitResult>>

\* add(), second statement: g.wg.Add(1); then Go starts the goroutine and
\* returns
add_wg(t) ==
    /\ goPc[t] = "wgAdd"
    /\ wg' = wg + 1
    /\ goPc' = [goPc EXCEPT ![t] = "returned"]
    /\ taskPc' = [taskPc EXCEPT ![t] = "fn"]
    /\ UNCHANGED <<config, semLen, err, errOnce, errLock, firstLock, ctxErr,
                   cancelledBy, taskErr, observed, joinOld, waitPc,
                   waitResult>>

\* ---------------------------------------------------------- the goroutine
\* what fn can return: nil, a shared error value, an error value of its own
\* wrapping a shared one, or ctx.Err() once the context is done
Returns(t) ==
    {NilErr, errInternal, Errorf(t, errInvalid)}
        \cup (IF ctxErr # NilErr THEN {ctxErr} ELSE {})

\* a goroutine that drops the error fn returned when the context is done
RunFnDropsCtxErr(t) ==
    /\ taskPc[t] = "fn"
    /\ \E r \in Returns(t) :
         /\ taskErr' = [taskErr EXCEPT ![t] = r]
         /\ taskPc' = [taskPc EXCEPT ![t] =
                          IF r # NilErr /\ r # ctxErr THEN "lock" ELSE "done"]
    /\ observed' = [observed EXCEPT ![t] = (ctxErr # NilErr)]
    /\ UNCHANGED <<config, semLen, wg, err, errOnce, errLock, firstLock, ctxErr,
                   cancelledBy, goPc, joinOld, waitPc, waitResult>>

\* err := fn()
RunFn(t) ==
    /\ taskPc[t] = "fn"
    /\ \E r \in Returns(t) :
         /\ taskErr' = [taskErr EXCEPT ![t] = r]
         /\ taskPc' = [taskPc EXCEPT ![t] =
                          IF r # NilErr THEN "lock" ELSE "done"]
    /\ observed' = [observed EXCEPT ![t] = (ctxErr # NilErr)]
    /\ UNCHANGED <<config, semLen, wg, err, errOnce, errLock, firstLock, ctxErr,
                   cancelledBy, goPc, joinOld, waitPc, waitResult>>

\* a Lock that does not exclude: two goroutines update g.err at once
LockFreeRacy == TRUE

\* g.errLock.Lock() can proceed
LockFree == errLock = 0

\* g.errLock.Lock()
Lock(t) ==
    /\ taskPc[t] = "lock"
    /\ LockFree
    /\ errLock' = t
    /\ firstLock' = IF firstLock = 0 THEN t ELSE firstLock
    /\ taskPc' = [taskPc EXCEPT ![t] =
                     IF failureMode = "FailFast" THEN "once" ELSE "join"]
    /\ UNCHANGED <<config, semLen, wg, err, errOnce, ctxErr, cancelledBy,
                   goPc, taskErr, observed, joinOld, waitPc, waitResult>>

\* a Do that runs the function on every call
OnceDoEveryTime(t) ==
    /\ taskPc[t] = "once"
    /\ errOnce' = TRUE
    /\ err' = taskErr[t]
    /\ taskPc' = [taskPc EXCEPT ![t] = "cancel"]
    /\ UNCHANGED <<config, semLen, wg, errLock, firstLock, ctxErr, cancelledBy, goPc,
                   taskErr, observed, joinOld, waitPc, waitResult>>

\* g.errOnce.Do(func() { g.err = err; ... }): the function runs on the first
\* call only
OnceDo(t) ==
    /\ taskPc[t] = "once"
    /\ IF ~errOnce
       THEN /\ errOnce' = TRUE
            /\ err' = taskErr[t]
            /\ taskPc' = [taskPc EXCEPT ![t] = "cancel"]
       ELSE /\ UNCHANGED <<errOnce, err>>
            /\ taskPc' = [taskPc EXCEPT ![t] = "unlock"]
    /\ UNCHANGED <<config, semLen, wg, errLock, firstLock, ctxErr, cancelledBy, goPc,
                   taskErr, observed, joinOld, waitPc, waitResult>>

\* a function given to g.errOnce.Do that stores the error and cancels nothing
OnceCancelSkipped(t) ==
    /\ taskPc[t] = "cancel"
    /\ taskPc' = [taskPc EXCEPT ![t] = "unlock"]
    /\ UNCHANGED <<config, semLen, wg, err, errOnce, errLock, firstLock, ctxErr,
                   cancelledBy, goPc, taskErr, observed, joinOld, waitPc, waitResult>>

\* ... g.Cancel() }), the rest of the function given to g.errOnce.Do
OnceCancel(t) ==
    /\ taskPc[t] = "cancel"
    /\ GroupCancel("TaskError")
    /\ taskPc' = [taskPc EXCEPT ![t] = "unlock"]
    /\ UNCHANGED <<config, semLen, wg, err, errOnce, errLock, firstLock, goPc, taskErr,
                   observed, joinOld, waitPc, waitResult>>

\* g.err = errors.Join(g.err, err), the read of g.err
JoinRead(t) ==
    /\ taskPc[t] = "join"
    /\ joinOld' = [joinOld EXCEPT ![t] = err]
    /\ taskPc' = [taskPc EXCEPT ![t] = "store"]
    /\ UNCHANGED <<config, semLen, wg, err, errOnce, errLock, firstLock, ctxErr,
                   cancelledBy, goPc, taskErr, observed, waitPc, waitResult>>

\* a Collect branch that cancels the group as the FailFast branch does
JoinStoreCancels(t) ==
    /\ taskPc[t] = "store"
    /\ err' = Join(joinOld[t], taskErr[t])
    /\ joinOld' = [joinOld EXCEPT ![t] = NilErr]
    /\ GroupCancel("TaskError")
    /\ taskPc' = [taskPc EXCEPT ![t] = "unlock"]
    /\ UNCHANGED <<config, semLen, wg, errOnce, errLock, firstLock, goPc, taskErr,
                   observed, waitPc, waitResult>>

\* g.err = errors.Join(g.err, err), the write of g.err
JoinStore(t) ==
    /\ taskPc[t] = "store"
    /\ err' = Join(joinOld[t], taskErr[t])
    /\ joinOld' = [joinOld EXCEPT ![t] = NilErr]
    /\ taskPc' = [taskPc EXCEPT ![t] = "unlock"]
    /\ UNCHANGED <<config, semLen, wg, errOnce, errLock, firstLock, ctxErr,
                   cancelledBy, goPc, taskErr, observed, waitPc, waitResult>>

\* an error branch that returns without unlocking
UnlockForgotten(t) ==
    /\ taskPc[t] = "unlock"
    /\ taskPc' = [taskPc EXCEPT ![t] = "done"]
    /\ UNCHANGED <<config, semLen, wg, err, errOnce, errLock, firstLock, ctxErr,
                   cancelledBy, goPc, taskErr, observed, joinOld, waitPc,
                   waitResult>>

\* defer g.errLock.Unlock()
Unlock(t) ==
    /\ taskPc[t] = "unlock"
    /\ errLock' = 0
    /\ taskPc' = [taskPc EXCEPT ![t] = "done"]
    /\ UNCHANGED <<config, semLen, wg, err, errOnce, firstLock, ctxErr, cancelledBy,
                   goPc, taskErr, observed, joinOld, waitPc, waitResult>>

\* a done() that does not receive from the channel
SemAfterNoReceive == semLen

\* what <-g.sem leaves in the channel
SemAfterReceive == semLen - 1

\* a done() that a failed task leaves without receiving from the channel
done_semSkippedOnError(t) ==
    /\ taskPc[t] = "done"
    /\ IF semCap # NoLimit /\ taskErr[t] = NilErr
       THEN semLen > 0 /\ semLen' = SemAfterReceive
       ELSE UNCHANGED semLen
    /\ taskPc' = [taskPc EXCEPT ![t] = "wgDone"]
    /\ UNCHANGED <<config, wg, err, errOnce, errLock, firstLock, ctxErr, cancelledBy,
                   goPc, taskErr, observed, joinOld, waitPc, waitResult>>

\* defer g.done(), first statement: if g.sem != nil { <-g.sem }
done_sem(t) ==
    /\ taskPc[t] = "done"
    /\ IF semCap # NoLimit
       THEN semLen > 0 /\ semLen' = SemAfterReceive
       ELSE UNCHANGED semLen
    /\ taskPc' = [taskPc EXCEPT ![t] = "wgDone"]
    /\ UNCHANGED <<config, wg, err, errOnce, errLock, firstLock, ctxErr, cancelledBy,
                   goPc, taskErr, observed, joinOld, waitPc, waitResult>>

\* defer g.done(), second statement: g.wg.Done()
done_wg(t) ==
    /\ taskPc[t] = "wgDone"
    /\ wg' = wg - 1
    /\ taskPc' = [taskPc EXCEPT ![t] = "finished"]
    /\ UNCHANGED <<config, semLen, err, errOnce, errLock, firstLock, ctxErr,
                   cancelledBy, goPc, taskErr, observed, joinOld, waitPc,
                   waitResult>>

\* ------------------------------------------------------------------ Wait
\* the caller has made all its calls of Go and calls Wait
Wait ==
    /\ waitPc = "idle"
    /\ \A t \in Tasks : t <= nTasks => goPc[t] = "returned"
    /\ waitPc' = "wgWait"
    /\ UNCHANGED <<config, semLen, wg, err, errOnce, errLock, firstLock, ctxErr,
                   cancelledBy, goPc, taskPc, taskErr, observed, joinOld,
                   waitResult>>

\* a wait that does not wait for the counter to reach zero
WgZeroIgnored == TRUE

\* g.wg.Wait() can return
WgZero == wg = 0

\* g.wg.Wait()
wg_Wait ==
    /\ waitPc = "wgWait"
    /\ WgZero
    /\ waitPc' = "cancel"
    /\ UNCHANGED <<config, semLen, wg, err, errOnce, errLock, firstLock, ctxErr,
                   cancelledBy, goPc, taskPc, taskErr, observed, joinOld,
                   waitResult>>

\* a Wait that returns without cancelling
WaitCancelSkipped ==
    /\ waitPc = "cancel"
    /\ waitPc' = "return"
    /\ UNCHANGED <<config, semLen, wg, err, errOnce, errLock, firstLock, ctxErr,
                   cancelledBy, goPc, taskPc, taskErr, observed, joinOld, waitResult>>

\* g.Cancel() in Wait
WaitCancel ==
    /\ waitPc = "cancel"
    /\ GroupCancel("Wait")
    /\ waitPc' = "return"
    /\ UNCHANGED <<config, semLen, wg, err, errOnce, errLock, firstLock, goPc, taskPc,
                   taskErr, observed, joinOld, waitResult>>

\* a Wait that reports the context's error along with g.err
WaitReturnWithCtxErr ==
    /\ waitPc = "return"
    /\ waitResult' = Join(err, ctxErr)
    /\ waitPc' = "returned"
    /\ UNCHANGED <<config, semLen, wg, err, errOnce, errLock, firstLock, ctxErr,
                   cancelledBy, goPc, taskPc, taskErr, observed, joinOld>>

\* return g.err
WaitReturn ==
    /\ waitPc = "return"
    /\ waitResult' = err
    /\ waitPc' = "returned"
    /\ UNCHANGED <<config, semLen, wg, err, errOnce, errLock, firstLock, ctxErr,
                   cancelledBy, goPc, taskPc, taskErr, observed, joinOld>>

\* ------------------------------------------------------------------- Len
\* a Len that reports the counter of g.wg
GroupLenOfCounter == wg

\* Len(): return len(g.sem); the length of a nil channel is 0
GroupLen == IF semCap = NoLimit THEN 0 ELSE semLen

\* ------------------------------------------------------------------ Spec
TaskStep(t) ==
    \/ RunFn(t)
    \/ Lock(t)
    \/ OnceDo(t)
    \/ OnceCancel(t)
    \/ JoinRead(t)
    \/ JoinStore(t)
    \/ Unlock(t)
    \/ done_sem(t)
    \/ done_wg(t)

CallerStep ==
    \/ \E t \in Tasks : Go(t) \/ add_sem(t) \/ add_wg(t)
    \/ Wait
    \/ wg_Wait
    \/ WaitCancel
    \/ WaitReturn

Next ==
    \/ CallerStep
    \/ \E t \in Tasks : TaskStep(t)
    \/ Cancel
    \/ ParentDone

Spec == Init /\ [][Next]_vars

\* every thread that can run does run; nothing obliges anyone to call Cancel
\* or the parent context to end
Fairness ==
    /\ WF_vars(CallerStep)
    /\ \A t \in Tasks : WF_vars(TaskStep(t))

FairSpec == Spec /\ Fairness

\* Wait is called by a second thread while the first has not made all its
\* calls of Go
WaitOnOtherThread ==
    /\ waitPc = "idle"
    /\ \E t \in Tasks : t <= nTasks /\ goPc[t] # "returned"
    /\ waitPc' = "wgWait"
    /\ UNCHANGED <<config, semLen, wg, err, errOnce, errLock, firstLock, ctxErr,
                   cancelledBy, goPc, taskPc, taskErr, observed, joinOld,
                   waitResult>>

\* the first thread goes on calling Go while the second is in Wait or back
\* from it
GoDuringWait(t) ==
    /\ waitPc # "idle"
    /\ NextTask(t)
    /\ goPc' = [goPc EXCEPT ![t] = "add"]
    /\ UNCHANGED <<config, semLen, wg, err, errOnce, errLock, firstLock, ctxErr,
                   cancelledBy, taskPc, taskErr, observed, joinOld, waitPc,
                   waitResult>>

ConcNext ==
    \/ Next
    \/ WaitOnOtherThread
    \/ \E t \in Tasks : GoDuringWait(t)

\* Go and Wait called from two threads
ConcSpec == Init /\ [][ConcNext]_vars

\* ---------------------------------------------------- Go called by tasks
\* The tasks beyond the caller's nTasks are submitted by running tasks: the
\* fn of task c - nTasks may call Go for task c before it returns.
Spawner(c) == IF nTasks >= 1 /\ c > nTasks THEN c - nTasks ELSE 0

\* the fn of the running task Spawner(c) calls Go and enters g.add()
GoInFn(c) ==
    /\ Spawner(c) \in Tasks
    /\ goPc[c] = "idle"
    /\ taskPc[Spawner(c)] = "fn"
    /\ goPc' = [goPc EXCEPT ![c] = "add"]
    /\ UNCHANGED <<config, semLen, wg, err, errOnce, errLock, firstLock, ctxErr,
                   cancelledBy, taskPc, taskErr, observed, joinOld, waitPc,
                   waitResult>>

\* the fn of task t is inside a call of Go that has not returned
CallingGo(t) ==
    \E c \in Tasks : Spawner(c) = t /\ goPc[c] \in {"add", "wgAdd"}

\* err := fn(), for an fn that may call Go: it returns after that call has
RunFnAfterGo(t) == ~CallingGo(t) /\ RunFn(t)

NestedTaskStep(t) ==
    \/ GoInFn(t)
    \/ RunFnAfterGo(t)
    \/ Lock(t)
    \/ OnceDo(t)
    \/ OnceCancel(t)
    \/ JoinRead(t)
    \/ JoinStore(t)
    \/ Unlock(t)
    \/ done_sem(t)
    \/ done_wg(t)

NestedNext ==
    \/ CallerStep
    \/ \E t \in Tasks : NestedTaskStep(t)
    \/ Cancel
    \/ ParentDone

\* Go called by the caller and by the tasks it started
NestedSpec == Init /\ [][NestedNext]_vars

\* the caller's precondition of the termination claims: a limit of at least
\* one and more tasks than the limit
InitLimit == Init /\ cancel /\ semCap >= 1 /\ nTasks > semCap

FairLimitSpec == InitLimit /\ [][Next]_vars /\ Fairness

\* ----------------------------------------------------------- vocabulary
Submitted == {t \in Tasks : t <= nTasks}

\* the tasks whose fn returned an error
Failed == {t \in Tasks : taskErr[t] # NilErr}

\* the tasks that hold a unit of g.sem: sent in add(), not yet received in
\* done()
Holding ==
    {t \in Tasks : /\ goPc[t] \in {"wgAdd", "returned"}
                   /\ taskPc[t] \notin {"wgDone", "finished"}}

\* the tasks whose Go call has returned and whose goroutine has not ended
Running ==
    {t \in Tasks : goPc[t] = "returned" /\ taskPc[t] # "finished"}

Count(s, e) == Cardinality({i \in DOMAIN s : s[i] = e})

Cancelled == ctxErr # NilErr

\* the error values a caller may test the result of Wait against
Targets ==
    Sentinels \cup {Errorf(t, e) : t \in Tasks, e \in {errInternal, errInvalid}}

\* ------------------------------------------------------------------- C1
\* C1: under Collect, the value Wait returns holds the error of every
\* failed task, one entry for each failed task (equal errors of two tasks
\* are two entries), and every submitted task has run to its end.
C1_CollectKeepsEveryError ==
    (failureMode = "Collect" /\ waitPc = "returned") =>
        /\ \A t \in Submitted : taskPc[t] = "finished"
        /\ \A t \in Failed : Is(waitResult, taskErr[t])
        /\ \A t \in Failed :
              Count(Leaves(waitResult), taskErr[t])
                  = Cardinality({u \in Failed : taskErr[u] = taskErr[t]})
        /\ Len(Leaves(waitResult)) = Cardinality(Failed)

\* two tasks failed with the same error and Wait returned both entries
C1_Witness ==
    /\ failureMode = "Collect"
    /\ waitPc = "returned"
    /\ \E t, u \in Failed : t # u /\ taskErr[t] = taskErr[u]
    /\ Len(Leaves(waitResult)) >= 2

\* ------------------------------------------------------------------- C2
\* the tasks that failed after the first one took the error lock
LaterFailed == Failed \ {firstLock}

\* C2 as stated: under FailFast, Wait returns the error of the first task
\* that reached the error handler, and that value matches the error of no
\* task that failed later.
C2_AsStated ==
    (failureMode = "FailFast" /\ waitPc = "returned" /\ firstLock # 0) =>
        /\ waitResult = taskErr[firstLock]
        /\ \A u \in LaterFailed : ~Is(waitResult, taskErr[u])

\* C2: under FailFast, g.err is nil until the latch fires and from then on
\* is the error of the first task that took the error lock, whatever fails
\* later; Wait returns exactly that value, and it matches the error of a
\* task that failed later only when the first error is, or wraps, that same
\* value.
C2_FailFastKeepsFirstError ==
    failureMode = "FailFast" =>
        /\ ~errOnce => err = NilErr
        /\ errOnce => firstLock # 0 /\ err = taskErr[firstLock]
        /\ (waitPc = "returned" /\ firstLock # 0) =>
              /\ waitResult = taskErr[firstLock]
              /\ \A u \in LaterFailed :
                    Is(waitResult, taskErr[u])
                        => Is(taskErr[firstLock], taskErr[u])

\* two tasks failed with different errors and Wait returned the first one
C2_Witness ==
    /\ failureMode = "FailFast"
    /\ waitPc = "returned"
    /\ firstLock # 0
    /\ \E u \in LaterFailed : ~Is(waitResult, taskErr[u])
    /\ waitResult = taskErr[firstLock]

\* ------------------------------------------------------------------- C3
\* C3: with WithLimit(k), k >= 1, at most k tasks hold capacity of the
\* admission gate at any time.
C3_AtMostLimitHold ==
    semCap >= 1 => Cardinality(Holding) <= semCap

\* the gate is full and the caller's next Go is blocked in add()
C3_Witness ==
    /\ semCap >= 1
    /\ Cardinality(Holding) = semCap
    /\ \E t \in Tasks : goPc[t] = "add"

\* ------------------------------------------------------------------- C4
\* C4: once g.wg.Wait() has returned inside Wait, and so when Wait returns,
\* no task whose Go call has returned is still running, cancelled or not.
C4_WaitOutlastsTasks ==
    waitPc \in {"cancel", "return", "returned"} => Running = {}

\* Cancel was called, a task ran on to success all the same, and Wait
\* returned after it
C4_Witness ==
    /\ waitPc = "returned"
    /\ cancelledBy = "Cancel"
    /\ \E t \in Submitted : observed[t] /\ taskErr[t] = NilErr

\* ------------------------------------------------------------------- C5
\* C5: in both modes Wait returns nil exactly when no task failed; when a
\* task failed the value matches the error of some failed task, and it
\* matches a target only if the error some task returned matches it.
C5_NilIffNoFailure ==
    waitPc = "returned" =>
        /\ waitResult = NilErr <=> Failed = {}
        /\ Failed # {} => \E t \in Failed : Is(waitResult, taskErr[t])
        /\ \A e \in Targets :
              Is(waitResult, e) => \E t \in Failed : Is(taskErr[t], e)

\* a task failed with a wrapped error and Wait returned a value that matches
\* the wrapped sentinel and does not match the other one
C5_Witness ==
    /\ waitPc = "returned"
    /\ Failed # {}
    /\ Is(waitResult, errInvalid)
    /\ ~Is(waitResult, errInternal)

\* ------------------------------------------------------------------- C6
\* the failed tasks that are past the error handler: about to unlock, about
\* to release capacity, about to decrement the counter, or ended
PastHandler ==
    {t \in Failed : taskPc[t] \in {"unlock", "done", "wgDone", "finished"}}

\* C6: under FailFast, when a failed task is past the error handler, and so
\* before it releases capacity and decrements the counter, the context is
\* already cancelled.
C6_CancelledBeforeRelease ==
    (failureMode = "FailFast" /\ PastHandler # {}) => Cancelled

\* the first failed task cancelled the context and has not yet released its
\* capacity, while another task is still running fn
C6_Witness ==
    /\ failureMode = "FailFast"
    /\ cancelledBy = "TaskError"
    /\ \E t \in PastHandler : taskPc[t] = "done"
    /\ \E u \in Tasks : taskPc[u] = "fn"

\* ------------------------------------------------------------------- C7
\* Wait has seen every task finish and has called g.Cancel()
WaitCancelled == waitPc \in {"return", "returned"}

\* C7 as stated: a cancelled context was cancelled by Cancel, by the first
\* task error under FailFast, or by Wait.
C7_AsStated ==
    Cancelled =>
        \/ cancelledBy = "Cancel"
        \/ cancelledBy = "TaskError" /\ failureMode = "FailFast" /\ errOnce
        \/ cancelledBy = "Wait" /\ WaitCancelled

\* C7: a cancelled context was cancelled by Cancel, by the first task error
\* under FailFast, by Wait after all tasks finished, or by the end of the
\* parent context given to New.  Under Collect, with no Cancel and a parent
\* that lives on, the context is cancelled only once Wait has seen all tasks
\* finish, however many of them failed.
C7_CancelledOnlyBy ==
    /\ Cancelled =>
          \/ cancelledBy = "Cancel"
          \/ cancelledBy = "TaskError" /\ failureMode = "FailFast" /\ errOnce
          \/ cancelledBy = "Wait" /\ WaitCancelled
          \/ cancelledBy = "Parent"
    /\ (failureMode = "Collect" /\ Cancelled
            /\ cancelledBy \notin {"Cancel", "Parent"})
          => WaitCancelled /\ Running = {}
    /\ ~Cancelled => cancelledBy = "none"

\* under Collect every task failed and the context was still live when Wait
\* came to cancel it
C7_Witness ==
    /\ failureMode = "Collect"
    /\ cancel
    /\ nTasks = MaxTasks
    /\ Failed = Tasks
    /\ \A t \in Tasks : ~observed[t]
    /\ cancelledBy = "Wait"

\* ------------------------------------------------------------------- C8
\* C8: when Wait has returned, the context New returned is cancelled.
C8_WaitCancels ==
    (cancel /\ waitPc = "returned") => Cancelled

\* no task was submitted, nothing failed, and Wait cancelled the context
C8_Witness ==
    /\ cancel
    /\ waitPc = "returned"
    /\ nTasks = 0
    /\ cancelledBy = "Wait"
    /\ waitResult = NilErr

\* ------------------------------------------------------------------- C9
\* every call of Go returned, every task ended and Wait returned
AllDone ==
    /\ \A t \in Submitted : goPc[t] = "returned" /\ taskPc[t] = "finished"
    /\ waitPc = "returned"

\* C9: with a limit k >= 1 and more than k tasks submitted one after
\* another, under fair scheduling every call of Go returns, every task ends
\* and Wait returns.
C9_LimitedGroupTerminates == <>AllDone

\* a Go call had to wait for capacity, and in the end everything was done
C9_Witness ==
    /\ semCap >= 1
    /\ nTasks > semCap
    /\ AllDone
    /\ semLen = 0

\* ------------------------------------------------------------------ C10
\* Cancel was called while the context was live and after a task had run fn
CancelAfterStart ==
    /\ cancelledBy = "Cancel"
    /\ \E t \in Submitted : taskPc[t] \notin {"none", "fn"} /\ ~observed[t]

\* every task that found the context done when fn returned returned ctx.Err()
Cooperative == \A t \in Tasks : observed[t] => taskErr[t] = ctxErr

\* C10 as stated: under Collect, with cooperative tasks, a Wait that follows
\* a Cancel called after some tasks started returns a value matching
\* context.Canceled.
C10_AsStated ==
    (failureMode = "Collect" /\ CancelAfterStart /\ Cooperative
        /\ waitPc = "returned")
      => Is(waitResult, Canceled)

\* C10: under Collect, a Wait that follows a Cancel returns a value matching
\* context.Canceled exactly when some task returned an error matching
\* context.Canceled: a task that was still in fn at the Cancel and returned
\* ctx.Err() makes it so, tasks that had all returned before do not.
C10_CanceledIffObserved ==
    (failureMode = "Collect" /\ waitPc = "returned") =>
        /\ Is(waitResult, Canceled)
              <=> \E t \in Failed : Is(taskErr[t], Canceled)
        /\ (cancelledBy = "Cancel"
                /\ \E t \in Submitted : observed[t] /\ taskErr[t] = ctxErr)
              => Is(waitResult, Canceled)

\* one task ended before the Cancel, one returned ctx.Err() after it, and
\* Wait returned a value matching context.Canceled
C10_Witness ==
    /\ failureMode = "Collect"
    /\ CancelAfterStart
    /\ Cooperative
    /\ waitPc = "returned"
    /\ \E t \in Submitted : observed[t] /\ taskErr[t] = Canceled
    /\ Is(waitResult, Canceled)
\* ------------------------------------------------------------------ C11
\* C11: a cancelled context stays cancelled with the error it has, whatever
\* Go, the tasks, Wait or Cancel do next; and a call of Cancel on a
\* cancelled context, also after Wait has returned, changes nothing at all.
C11_CancelOnceForAll ==
    [][Cancelled =>
          /\ ctxErr' = ctxErr
          /\ cancelledBy' = cancelledBy
          /\ Cancel => UNCHANGED vars]_vars

\* the parent's deadline cancelled the context; the first task error under
\* FailFast and then Wait both called g.Cancel() on it and it kept its error
C11_Witness ==
    /\ failureMode = "FailFast"
    /\ ctxErr = DeadlineExceeded
    /\ cancelledBy = "Parent"
    /\ errOnce
    /\ waitPc = "returned"

\* ------------------------------------------------------------------ C12
\* C12: on a group to which no task is submitted g.wg.Wait() never blocks
\* and Wait returns nil, in both modes, with or without a limit.
C12_WaitWithoutTasks ==
    nTasks = 0 =>
        /\ waitPc = "wgWait" => WgZero
        /\ waitPc = "returned" => waitResult = NilErr
        /\ err = NilErr

\* Wait returned nil on an empty FailFast group with a limit, although the
\* context had been cancelled before
C12_Witness ==
    /\ nTasks = 0
    /\ failureMode = "FailFast"
    /\ semCap \in 0..MaxLimit
    /\ cancelledBy = "Cancel"
    /\ waitPc = "returned"
    /\ waitResult = NilErr
Blocked ==
    {t \in Tasks : goPc[t] = "add" /\ semCap # NoLimit /\ ~SemHasRoom}

\* the Go calls that are inside add()
InAdd == {t \in Tasks : goPc[t] \in {"add", "wgAdd"}}

\* Wait is past g.wg.Wait()
PastBarrier == waitPc \in {"cancel", "return", "returned"}

\* C15 as stated: a Go call blocked on the gate is already counted by the
\* counter, and Wait on another thread is not past g.wg.Wait() while a Go
\* call that had to wait is still inside add().
C15_AsStated ==
    /\ semCap >= 1 => wg >= Cardinality(Running) + Cardinality(Blocked)
    /\ (semCap >= 1 /\ PastBarrier /\ Running = {}
            /\ \E u \in Tasks : taskPc[u] = "finished")
          => InAdd = {}

\* C15: add() waits for capacity first and calls g.wg.Add(1) afterwards:
\* the counter counts exactly the tasks whose Go call has returned and whose
\* goroutine has not called g.wg.Done(), and no Go call that is still inside
\* add(), blocked or not, is counted or has started its task.
C15_CounterSkipsBlockedGo ==
    /\ wg = Cardinality(Running)
    /\ \A t \in InAdd : taskPc[t] = "none"
    /\ Blocked # {} => wg < Cardinality(Running) + Cardinality(Blocked)

\* with a limit of 1 the first task failed and ended, Wait on the other
\* thread returned its error, and the second Go call is still inside add()
C15_Witness ==
    /\ semCap = 1
    /\ taskPc[1] = "finished"
    /\ taskErr[1] # NilErr
    /\ waitPc = "returned"
    /\ Is(waitResult, taskErr[1])
    /\ goPc[2] = "add"
\* ------------------------------------------------------------------ C16
\* C16 as stated: with WithLimit(0) a Go call never waits in add().
C16_AsStated ==
    semCap = 0 => \A t \in Tasks : goPc[t] = "add" => ENABLED add_sem(t)

\* C16: WithLimit(0) makes a channel without buffer that nobody receives
\* from: the first Go call stays in the send of add() for ever, no task is
\* counted or started, no capacity is ever held, and the caller never comes
\* to call Wait.
C16_LimitZeroBlocks ==
    semCap = 0 =>
        /\ \A t \in Tasks :
              /\ goPc[t] \in {"idle", "add"}
              /\ goPc[t] = "add" => ~ENABLED add_sem(t)
              /\ taskPc[t] = "none"
        /\ wg = 0
        /\ semLen = 0
        /\ nTasks >= 1 => waitPc = "idle"

\* the first Go call of a group with limit 0 is inside add()
C16_Witness ==
    /\ semCap = 0
    /\ goPc[1] = "add"
    /\ Blocked = {1}
\* ------------------------------------------------------------------ C17
\* the tasks that are inside the error handler, from Lock to Unlock
InHandler ==
    {t \in Tasks :
        taskPc[t] \in {"lock", "once", "cancel", "join", "store", "unlock"}}

\* the tasks that have come to g.done()
AtDone == {t \in Tasks : taskPc[t] \in {"done", "wgDone", "finished"}}

\* the error of task t is in g.err, or was discarded by the latch
Recorded(t) ==
    IF failureMode = "FailFast"
    THEN errOnce /\ (t = firstLock => err = taskErr[t])
    ELSE Count(Leaves(err), taskErr[t])
             >= Cardinality({u \in Failed \cap AtDone : taskErr[u] = taskErr[t]})

\* C17: a failed task that has come to g.done() has written g.err and given
\* back the error lock; so once g.wg.Wait() has returned no task is in the
\* error handler, the lock is free, and the value Wait reads holds the error
\* of every task that ended.
C17_ErrorWrittenBeforeDone ==
    /\ \A t \in AtDone : errLock # t
    /\ \A t \in Failed \cap AtDone : Recorded(t)
    /\ PastBarrier => InHandler = {} /\ errLock = 0
    /\ (waitPc = "returned" /\ failureMode = "Collect") =>
          \A t \in Failed : Is(waitResult, taskErr[t])

\* one failed task has written g.err, unlocked and not yet released its
\* capacity, while another one holds the lock
C17_Witness ==
    /\ \E t \in Failed : taskPc[t] = "done" /\ Is(err, taskErr[t])
    /\ \E u \in InHandler : errLock = u

\* ------------------------------------------------------------------ C18
\* C18: capacity and counter are given back once by every task that went
\* through g.done(), whether it succeeded, failed or had its error
\* discarded: the channel holds one unit for each task between add() and
\* done(), the counter counts the tasks not yet done, and when Wait has
\* returned both are 0 and Len() is 0.
C18_ReleasedExactlyOnce ==
    /\ semCap # NoLimit => semLen = Cardinality(Holding)
    /\ wg = Cardinality(Running)
    /\ waitPc = "returned" =>
          /\ Holding = {}
          /\ semLen = 0
          /\ wg = 0
          /\ GroupLen = 0

\* under FailFast with a limit one task's error was kept, another's was
\* discarded, and Wait returned with nothing held
C18_Witness ==
    /\ failureMode = "FailFast"
    /\ semCap >= 1
    /\ firstLock # 0
    /\ LaterFailed # {}
    /\ waitPc = "returned"
    /\ GroupLen = 0
\* ------------------------------------------------------------------ C19
\* what Cancel must leave alone
GroupState ==
    <<semLen, wg, err, errOnce, errLock, goPc, taskPc, taskErr, waitPc,
      waitResult>>

\* a step in which a call of Cancel cancels the context
CancelTakesEffect == ~Cancelled /\ cancelledBy' = "Cancel"

\* after a cancellation every call of Go goes on as without it: the call can
\* be made, capacity that is free is acquired, the task is counted and
\* started, and a started task runs
NotHeldByCancel ==
    \A t \in Tasks :
        /\ (NextTask(t) /\ waitPc = "idle") => ENABLED Go(t)
        /\ (goPc[t] = "add" /\ (semCap = NoLimit \/ SemHasRoom))
              => ENABLED add_sem(t)
        /\ goPc[t] = "wgAdd" => ENABLED add_wg(t)
        /\ taskPc[t] = "fn" => ENABLED RunFn(t)

\* C19: a call of Cancel that cancels the context changes nothing else:
\* counter, held capacity, error slot, latch, and the position of every Go
\* call, task and Wait stay as they are; and in a cancelled group Go still
\* admits, counts and starts a task.
C19_CancelChangesOnlyContext ==
    /\ [][CancelTakesEffect => UNCHANGED GroupState]_vars
    /\ [](Cancelled => NotHeldByCancel)

\* with a limit of 1 the first task was still in fn at the Cancel, so the
\* second one was admitted after it, and it has been started
C19_Witness ==
    /\ semCap = 1
    /\ cancelledBy = "Cancel"
    /\ observed[1]
    /\ taskPc[1] = "finished"
    /\ taskPc[2] = "fn"
    /\ wg = 1

\* ------------------------------------------------------------------ C20
\* C20: under FailFast only a task that failed fires the latch: after a
\* Cancel that found no failure the latch is still open, the first task that
\* fails afterwards has its error recorded and Wait returns it, and when no
\* task fails Wait returns nil although the context was cancelled.
C20_CancelLeavesLatch ==
    failureMode = "FailFast" =>
        /\ errOnce => \E t \in Failed : t = firstLock /\ taskPc[t] # "once"
        /\ (cancelledBy = "Cancel" /\ waitPc = "returned") =>
              /\ Failed = {} => waitResult = NilErr /\ ~errOnce
              /\ Failed # {} => errOnce /\ waitResult = taskErr[firstLock]
                                  /\ waitResult # NilErr

\* Cancel came before any failure; a task then returned ctx.Err() and Wait
\* returned that error
C20_Witness ==
    /\ failureMode = "FailFast"
    /\ cancelledBy = "Cancel"
    /\ waitPc = "returned"
    /\ firstLock # 0
    /\ observed[firstLock]
    /\ taskErr[firstLock] = Canceled
    /\ waitResult = Canceled
    /\ \A t \in Failed : observed[t]
\* ------------------------------------------------------------------ C21
\* the gate is full and every task that holds capacity is in fn, inside a
\* call of Go that waits in add() for capacity
AllHoldersBlocked ==
    /\ semCap >= 1
    /\ Cardinality(Holding) = semCap
    /\ \A h \in Holding :
          /\ taskPc[h] = "fn"
          /\ \E c \in Blocked : Spawner(c) = h

\* C21 as stated: with WithLimit(k), k >= 1, and tasks that call Go, no
\* reachable state has all k capacity holders blocked inside Go.
C21_AsStated == ~AllHoldersBlocked

\* C21: with WithLimit(k), k >= 1, tasks that call Go can bring the group
\* to a state where all k capacity holders are blocked inside Go; from then
\* on, whatever Cancel or the parent context do, no capacity is released, no
\* Go call returns (a further call of Go can only enter add() and wait
\* there), no task ends, and Wait, which is not past g.wg.Wait(), never
\* returns.
C21_NestedGoDeadlocks ==
    /\ [](AllHoldersBlocked => ~PastBarrier /\ wg >= semCap)
    /\ [][AllHoldersBlocked =>
              /\ AllHoldersBlocked'
              /\ UNCHANGED <<semLen, wg, taskPc, err>>
              /\ \A c \in Tasks : goPc'[c] # goPc[c] =>
                                     goPc[c] = "idle" /\ goPc'[c] = "add"
              /\ waitPc' \in {"idle", "wgWait"}]_vars

\* all holders are blocked inside Go, the caller waits in Wait, and the
\* context has been cancelled to no avail
C21_Witness ==
    /\ AllHoldersBlocked
    /\ waitPc = "wgWait"
    /\ cancelledBy = "Cancel"
====
